---- MODULE Spec2Model ----
(***************************************************************************)
(* Model of triangula/chassis.py: the Vector2 value type, the OmniWheel    *)
(* constructor and HoloChassis.get_wheel_speeds.                           *)
(*                                                                         *)
(* Numbers.  Vector2 components on the heap are Python ints.  A computed   *)
(* number is an exact real  num * sqrt(rad) / den  (record Real), which is *)
(* closed under what the code computes from ints: sums, products,          *)
(* quotients and one square root.  Floating point rounding is not          *)
(* modelled.  The wheel geometry (sin, cos, pi) is modelled in fixed point *)
(* with three decimals.                                                    *)
(***************************************************************************)
EXTENDS Integers, Sequences, FiniteSets, TLC

VARIABLES heap, last, made, wheels, chassis, threads

vars == <<heap, last, made, wheels, chassis, threads>>
vecVars == <<heap, last>>
wheelVars == <<made>>
chassisVars == <<wheels, chassis, threads>>

(***************************************************************************)
(* Bounds of the model.                                                    *)
(***************************************************************************)
MaxCoord == 1
MaxScalar == 2
MaxWheels == 2

Refs == {1, 2}
Coords == (-MaxCoord)..MaxCoord

(***************************************************************************)
(* Exact arithmetic.                                                       *)
(***************************************************************************)
Abs(n) == IF n < 0 THEN -n ELSE n

Sign(n) == IF n < 0 THEN -1 ELSE IF n = 0 THEN 0 ELSE 1

RECURSIVE GCD(_, _)
GCD(a, b) == IF b = 0 THEN Abs(a) ELSE GCD(b, a % Abs(b))

SquarePart(n) ==
    CHOOSE s \in 1..n : /\ n % (s * s) = 0
                        /\ \A t \in (s + 1)..n : n % (t * t) # 0

Real(num, den, rad) ==
    IF num = 0 \/ rad = 0
    THEN [num |-> 0, den |-> 1, rad |-> 1]
    ELSE LET s == SquarePart(rad)
             n == num * s * Sign(den)
             d == Abs(den)
             g == GCD(n, d)
         IN  [num |-> n \div g, den |-> d \div g, rad |-> rad \div (s * s)]

Whole(n) == [num |-> n, den |-> 1, rad |-> 1]

IsZero(r) == r.num = 0

(* math.sqrt of a non-negative int *)
sqrt(n) == Real(1, 1, n)

(* int / float where the float is the real d # 0 *)
DivByReal(x, d) == Real(x * d.den, d.num * d.rad, d.rad)

(***************************************************************************)
(* Python values: results, operands.                                       *)
(***************************************************************************)
Ok(val) == [status |-> "ok", val |-> val]

Raise(exc) == [status |-> "raised", exc |-> exc]

None == [kind |-> "None"]

Bool(b) == [kind |-> "bool", b |-> b]

Num(r) == [kind |-> "num", v |-> r]

(* a Vector2 object: ref = 0 is a newly allocated object, ref = i is the *)
(* heap object i itself                                                   *)
Vec(ref, x, y) == [kind |-> "Vector2", ref |-> ref, x |-> x, y |-> y]

OVec(j) == [type |-> "Vector2", ref |-> j, items |-> <<>>]

OSeq(t) == [type |-> "tuple", ref |-> 0, items |-> t]

Scalar(type, val) == [type |-> type, val |-> val]

Others == {OVec(j) : j \in Refs} \cup {OSeq(<<1, -1>>), OSeq(<<1, 0, 0>>)}

Scalars == {Scalar("int", k) : k \in (-MaxScalar)..MaxScalar}
           \cup {Scalar("float", 0), Scalar("float", MaxScalar), Scalar("str", 0)}

Keys == {-1, 0, 1, 2}

(* the object the modelled calls are made on; object 2 is only an operand *)
Receivers == {1}

isinstance_Vector2(other) == other.type = "Vector2"

is_number(other) == other.type \in {"int", "float"}

has_len_2(other) == other.type = "tuple" /\ Len(other.items) = 2

(* other.x / other[0] and other.y / other[1] *)
OtherX(h, other) == IF isinstance_Vector2(other) THEN h[other.ref].x ELSE other.items[1]

OtherY(h, other) == IF isinstance_Vector2(other) THEN h[other.ref].y ELSE other.items[2]

Pure(h, ret) == [heap |-> h, ret |-> ret]

(* Vector2(rx, ry) where rx and ry are results of evaluating the arguments *)
(* left to right                                                          *)
NewVec(rx, ry) ==
    IF rx.status = "raised" THEN rx
    ELSE IF ry.status = "raised" THEN ry
    ELSE Ok(Vec(0, rx.val, ry.val))

(***************************************************************************)
(* The operator module (Python 2).                                         *)
(***************************************************************************)
operator_div(a, b) ==
    IF b.val = 0 THEN Raise("ZeroDivisionError")
    ELSE IF a.type = "int" /\ b.type = "int" THEN Ok(Whole(a.val \div b.val))
    ELSE Ok(Real(a.val, b.val, 1))

operator_floordiv(a, b) ==
    IF b.val = 0 THEN Raise("ZeroDivisionError")
    ELSE Ok(Whole(a.val \div b.val))

(* a division that answers 0 for a zero divisor instead of raising *)
operator_truediv_silent(a, b) ==
    IF b.val = 0 THEN Ok(Whole(0)) ELSE Ok(Real(a.val, b.val, 1))

operator_truediv(a, b) ==
    IF b.val = 0 THEN Raise("ZeroDivisionError")
    ELSE Ok(Real(a.val, b.val, 1))

(***************************************************************************)
(* class Vector2.  Each method maps the heap, self and the arguments to    *)
(* the heap after the call and the value returned or exception raised.     *)
(***************************************************************************)
Vector2__init__(x, y) == [x |-> x, y |-> y]

__copy__(h, self) == Pure(h, Ok(Vec(0, Whole(h[self].x), Whole(h[self].y))))

__eq__(h, self, other) ==
    IF isinstance_Vector2(other)
    THEN Pure(h, Ok(Bool(h[self].x = h[other.ref].x /\ h[self].y = h[other.ref].y)))
    ELSE IF ~has_len_2(other) THEN Pure(h, Raise("AssertionError"))
    ELSE Pure(h, Ok(Bool(h[self].x = other.items[1] /\ h[self].y = other.items[2])))

__ne__(h, self, other) ==
    LET r == __eq__(h, self, other)
    IN  IF r.ret.status = "raised" THEN r ELSE [heap |-> r.heap, ret |-> Ok(Bool(~r.ret.val.b))]

__nonzero__(h, self) == Pure(h, Ok(Bool(h[self].x # 0 \/ h[self].y # 0)))

__len__(h, self) == Pure(h, Ok(Num(Whole(2))))

dot(h, self, other) ==
    IF ~isinstance_Vector2(other) THEN Pure(h, Raise("AssertionError"))
    ELSE Pure(h, Ok(Num(Whole(h[self].x * h[other.ref].x + h[self].y * h[other.ref].y))))

cross(h, self) == Pure(h, Ok(Vec(0, Whole(h[self].y), Whole(-h[self].x))))

__abs__(h, self) == Pure(h, Ok(Num(sqrt(h[self].x * h[self].x + h[self].y * h[self].y))))

magnitude_squared(h, self) == Pure(h, Ok(Num(Whole(h[self].x * h[self].x + h[self].y * h[self].y))))

(* normalized without the test of d: divides by the magnitude always *)
normalized_unguarded(h, self) ==
    LET d == __abs__(h, self).ret.val.v
    IN  IF IsZero(d) THEN Pure(h, Raise("ZeroDivisionError"))
        ELSE Pure(h, Ok(Vec(0, DivByReal(h[self].x, d), DivByReal(h[self].y, d))))

normalized(h, self) ==
    LET d == __abs__(h, self).ret.val.v
    IN  IF ~IsZero(d)
        THEN Pure(h, Ok(Vec(0, DivByReal(h[self].x, d), DivByReal(h[self].y, d))))
        ELSE __copy__(h, self)

__add__(h, self, other) ==
    IF isinstance_Vector2(other)
    THEN Pure(h, Ok(Vec(0, Whole(h[self].x + h[other.ref].x), Whole(h[self].y + h[other.ref].y))))
    ELSE IF ~has_len_2(other) THEN Pure(h, Raise("AssertionError"))
    ELSE Pure(h, Ok(Vec(0, Whole(h[self].x + other.items[1]), Whole(h[self].y + other.items[2]))))

__iadd__(h, self, other) ==
    LET nx == h[self].x + OtherX(h, other)
        ny == h[self].y + OtherY(h, other)
    IN  [heap |-> [h EXCEPT ![self] = Vector2__init__(nx, ny)],
         ret |-> Ok(Vec(self, Whole(nx), Whole(ny)))]

__getitem__(h, self, key) ==
    IF key \notin {-2, -1, 0, 1} THEN Pure(h, Raise("IndexError"))
    ELSE Pure(h, Ok(Num(Whole(IF key \in {0, -2} THEN h[self].x ELSE h[self].y))))

__setitem__(h, self, key, value) ==
    IF key \notin {-2, -1, 0, 1} THEN Pure(h, Raise("IndexError"))
    ELSE [heap |-> [h EXCEPT ![self] = IF key \in {0, -2}
                                       THEN Vector2__init__(value, h[self].y)
                                       ELSE Vector2__init__(h[self].x, value)],
          ret |-> Ok(None)]

__sub__(h, self, other) ==
    IF isinstance_Vector2(other)
    THEN Pure(h, Ok(Vec(0, Whole(h[self].x - h[other.ref].x), Whole(h[self].y - h[other.ref].y))))
    ELSE IF ~has_len_2(other) THEN Pure(h, Raise("AssertionError"))
    ELSE Pure(h, Ok(Vec(0, Whole(h[self].x - other.items[1]), Whole(h[self].y - other.items[2]))))

__rsub__(h, self, other) ==
    IF isinstance_Vector2(other)
    THEN Pure(h, Ok(Vec(0, Whole(h[other.ref].x - h[self].x), Whole(h[other.ref].y - h[self].y))))
    ELSE IF ~has_len_2(other) THEN Pure(h, Raise("AssertionError"))
    ELSE Pure(h, Raise("AttributeError"))

__mul__(h, self, other) ==
    IF ~is_number(other) THEN Pure(h, Raise("AssertionError"))
    ELSE Pure(h, Ok(Vec(0, Whole(h[self].x * other.val), Whole(h[self].y * other.val))))

__imul__(h, self, other) ==
    IF ~is_number(other) THEN Pure(h, Raise("AssertionError"))
    ELSE LET nx == h[self].x * other.val
             ny == h[self].y * other.val
         IN  [heap |-> [h EXCEPT ![self] = Vector2__init__(nx, ny)],
              ret |-> Ok(Vec(self, Whole(nx), Whole(ny)))]

__div__(h, self, other) ==
    IF ~is_number(other) THEN Pure(h, Raise("AssertionError"))
    ELSE Pure(h, NewVec(operator_div(Scalar("int", h[self].x), other),
                        operator_div(Scalar("int", h[self].y), other)))

__rdiv__(h, self, other) ==
    IF ~is_number(other) THEN Pure(h, Raise("AssertionError"))
    ELSE Pure(h, NewVec(operator_div(other, Scalar("int", h[self].x)),
                        operator_div(other, Scalar("int", h[self].y))))

__floordiv__(h, self, other) ==
    IF ~is_number(other) THEN Pure(h, Raise("AssertionError"))
    ELSE Pure(h, NewVec(operator_floordiv(Scalar("int", h[self].x), other),
                        operator_floordiv(Scalar("int", h[self].y), other)))

__rfloordiv__(h, self, other) ==
    IF ~is_number(other) THEN Pure(h, Raise("AssertionError"))
    ELSE Pure(h, NewVec(operator_floordiv(other, Scalar("int", h[self].x)),
                        operator_floordiv(other, Scalar("int", h[self].y))))

__truediv__(h, self, other) ==
    IF ~is_number(other) THEN Pure(h, Raise("AssertionError"))
    ELSE Pure(h, NewVec(operator_truediv(Scalar("int", h[self].x), other),
                        operator_truediv(Scalar("int", h[self].y), other)))

__rtruediv__(h, self, other) ==
    IF ~is_number(other) THEN Pure(h, Raise("AssertionError"))
    ELSE Pure(h, NewVec(operator_truediv(other, Scalar("int", h[self].x)),
                        operator_truediv(other, Scalar("int", h[self].y))))

(* negation that overwrites self and returns it *)
__neg__inplace(h, self) ==
    [heap |-> [h EXCEPT ![self] = Vector2__init__(-h[self].x, -h[self].y)],
     ret |-> Ok(Vec(self, Whole(-h[self].x), Whole(-h[self].y)))]

__neg__(h, self) == Pure(h, Ok(Vec(0, Whole(-h[self].x), Whole(-h[self].y))))

__pos__(h, self) == __copy__(h, self)


(***************************************************************************)
(* Vector2 calls.  A call of method op on heap object s replaces the heap  *)
(* by the heap the method leaves and records the call in last.  In-place   *)
(* results are kept within Coords so that the state space is finite.       *)
(***************************************************************************)
InRange(h) == \A i \in Refs : h[i].x \in Coords /\ h[i].y \in Coords

NoCall == [op |-> "none"]

Apply(op, s, arg, r) ==
    /\ InRange(r.heap)
    /\ heap' = r.heap
    /\ last' = [op |-> op, self |-> s, arg |-> arg, pre |-> heap, ret |-> r.ret]
    /\ UNCHANGED <<wheelVars, chassisVars>>

Call__copy__ == \E s \in Receivers : Apply("__copy__", s, None, __copy__(heap, s))

Call__eq__ == \E s \in Receivers, o \in Others : Apply("__eq__", s, o, __eq__(heap, s, o))

Call__ne__ == \E s \in Receivers, o \in Others : Apply("__ne__", s, o, __ne__(heap, s, o))

Call__nonzero__ == \E s \in Receivers : Apply("__nonzero__", s, None, __nonzero__(heap, s))

Call__len__ == \E s \in Receivers : Apply("__len__", s, None, __len__(heap, s))

Call_dot == \E s \in Receivers, o \in Others : Apply("dot", s, o, dot(heap, s, o))

Call_cross == \E s \in Receivers : Apply("cross", s, None, cross(heap, s))

Call__abs__ == \E s \in Receivers : Apply("__abs__", s, None, __abs__(heap, s))

Call_magnitude_squared ==
    \E s \in Receivers : Apply("magnitude_squared", s, None, magnitude_squared(heap, s))

Call_normalized == \E s \in Receivers : Apply("normalized", s, None, normalized(heap, s))

Call__add__ == \E s \in Receivers, o \in Others : Apply("__add__", s, o, __add__(heap, s, o))

Call__iadd__ == \E s \in Receivers, o \in Others : Apply("__iadd__", s, o, __iadd__(heap, s, o))

Call__getitem__ ==
    \E s \in Receivers, key \in Keys :
        Apply("__getitem__", s, [key |-> key], __getitem__(heap, s, key))

Call__setitem__ ==
    \E s \in Receivers, key \in Keys, value \in Coords :
        Apply("__setitem__", s, [key |-> key, value |-> value],
              __setitem__(heap, s, key, value))

Call__sub__ == \E s \in Receivers, o \in Others : Apply("__sub__", s, o, __sub__(heap, s, o))

Call__rsub__ == \E s \in Receivers, o \in Others : Apply("__rsub__", s, o, __rsub__(heap, s, o))

Call__mul__ == \E s \in Receivers, k \in Scalars : Apply("__mul__", s, k, __mul__(heap, s, k))

Call__imul__ == \E s \in Receivers, k \in Scalars : Apply("__imul__", s, k, __imul__(heap, s, k))

Call__div__ == \E s \in Receivers, k \in Scalars : Apply("__div__", s, k, __div__(heap, s, k))

Call__rdiv__ == \E s \in Receivers, k \in Scalars : Apply("__rdiv__", s, k, __rdiv__(heap, s, k))

Call__floordiv__ ==
    \E s \in Receivers, k \in Scalars : Apply("__floordiv__", s, k, __floordiv__(heap, s, k))

Call__rfloordiv__ ==
    \E s \in Receivers, k \in Scalars : Apply("__rfloordiv__", s, k, __rfloordiv__(heap, s, k))

Call__truediv__ ==
    \E s \in Receivers, k \in Scalars : Apply("__truediv__", s, k, __truediv__(heap, s, k))

Call__rtruediv__ ==
    \E s \in Receivers, k \in Scalars : Apply("__rtruediv__", s, k, __rtruediv__(heap, s, k))

Call__neg__ == \E s \in Receivers : Apply("__neg__", s, None, __neg__(heap, s))

Call__pos__ == \E s \in Receivers : Apply("__pos__", s, None, __pos__(heap, s))

(***************************************************************************)
(* Wheel geometry in fixed point: a length, a sine or an angle in radians  *)
(* is an integer number of thousandths.                                    *)
(***************************************************************************)
Unit == 10 * 10 * 10

pi == 3142

FMul(a, b) == (a * b) \div Unit

(* an angle is carried by its measure in degrees; sin and cos are tabulated *)
radians(angle) == angle

sin(a) == CASE a = 0 -> 0 [] a = 30 -> 500 [] a = 90 -> Unit

cos(a) == CASE a = 0 -> Unit [] a = 30 -> 866 [] a = 90 -> 0

(* an optional argument: NoArg is None *)
NoArg == [given |-> FALSE, val |-> 0]

Arg(v) == [given |-> TRUE, val |-> v]

is_None(a) == ~a.given

(***************************************************************************)
(* HoloChassis.OmniWheel.__init__: the object self as the constructor      *)
(* leaves it, and whether it returned or raised.                           *)
(***************************************************************************)
(* a constructor whose first branch tests dx and dy only *)
OmniWheel__init__lax(x, y, angle, radius, dx, dy) ==
    IF ~is_None(dx) /\ ~is_None(dy)
    THEN [status |-> "ok", exc |-> "",
          self |-> [x |-> x, y |-> y, dx |-> dx.val, dy |-> dy.val]]
    ELSE IF ~is_None(angle) /\ ~is_None(radius) /\ is_None(dx) /\ is_None(dy)
    THEN LET angle_rads == radians(angle.val)
             circumference == FMul(2 * pi, radius.val)
         IN  [status |-> "ok", exc |-> "",
              self |-> [x |-> x, y |-> y,
                        dx |-> FMul(sin(angle_rads), circumference),
                        dy |-> FMul(cos(angle_rads), circumference)]]
    ELSE [status |-> "raised", exc |-> "ValueError", self |-> [x |-> x, y |-> y]]

OmniWheel__init__(x, y, angle, radius, dx, dy) ==
    IF is_None(angle) /\ is_None(radius) /\ ~is_None(dx) /\ ~is_None(dy)
    THEN [status |-> "ok", exc |-> "",
          self |-> [x |-> x, y |-> y, dx |-> dx.val, dy |-> dy.val]]
    ELSE IF ~is_None(angle) /\ ~is_None(radius) /\ is_None(dx) /\ is_None(dy)
    THEN LET angle_rads == radians(angle.val)
             circumference == FMul(2 * pi, radius.val)
         IN  [status |-> "ok", exc |-> "",
              self |-> [x |-> x, y |-> y,
                        dx |-> FMul(sin(angle_rads), circumference),
                        dy |-> FMul(cos(angle_rads), circumference)]]
    ELSE [status |-> "raised", exc |-> "ValueError", self |-> [x |-> x, y |-> y]]

HoloChassis__init__(ws) == [built |-> TRUE, wheels |-> ws]

(* the local function of get_wheel_speeds; it is defined and never called *)
velocity_at(x, y) == Vector2__init__(x, y)

(* a body that walks the wheel list by popping it *)
get_wheel_speeds_consuming(self, dx, dy, rotation, x_origin, y_origin) ==
    [self |-> [self EXCEPT !.wheels = <<>>], ret |-> None]

(* HoloChassis.get_wheel_speeds: self after the call and the value returned. *)
(* The body defines velocity_at and ends; the call returns None.             *)
get_wheel_speeds(self, dx, dy, rotation, x_origin, y_origin) ==
    [self |-> self, ret |-> None]

(***************************************************************************)
(* Wheel construction.                                                     *)
(***************************************************************************)
Positions == {0, Unit}

OptAngles == {NoArg} \cup {Arg(a) : a \in {0, 30, 90}}

OptRadii == {NoArg} \cup {Arg(r) : r \in {0, Unit}}

OptDrives == {NoArg} \cup {Arg(d) : d \in {-Unit, 0, Unit}}

Call_OmniWheel ==
    \E x \in Positions, y \in Positions, angle \in OptAngles, radius \in OptRadii,
       dx \in OptDrives, dy \in OptDrives :
        /\ made' = [called |-> TRUE, x |-> x, y |-> y, angle |-> angle,
                    radius |-> radius, dx |-> dx, dy |-> dy,
                    res |-> OmniWheel__init__(x, y, angle, radius, dx, dy)]
        /\ UNCHANGED <<vecVars, chassisVars>>

(***************************************************************************)
(* Chassis configuration and concurrent get_wheel_speeds calls.  The       *)
(* caller builds the wheel list, constructs the chassis from it, and then  *)
(* two threads call get_wheel_speeds, interleaved statement by statement.  *)
(***************************************************************************)
Threads == {1, 2}

ChassisWheelArgs ==
    {<<x, 0, NoArg, NoArg, Arg(0), Arg(d)>> : x \in Positions, d \in {0, Unit}}
    \cup {<<0, 0, Arg(90), Arg(Unit), NoArg, NoArg>>}

SpeedArgs ==
    [dx : {Unit, 2 * Unit}, dy : {0}, rotation : {0, 1, 2},
     x_origin : {0, Unit}, y_origin : {0}]

AppendWheel ==
    \E a \in ChassisWheelArgs :
        LET r == OmniWheel__init__(a[1], a[2], a[3], a[4], a[5], a[6])
        IN  /\ ~chassis.built
            /\ Len(wheels) < MaxWheels
            /\ r.status = "ok"
            /\ wheels' = Append(wheels, r.self)
            /\ UNCHANGED <<vecVars, wheelVars, chassis, threads>>

Call_HoloChassis ==
    /\ ~chassis.built
    /\ chassis' = HoloChassis__init__(wheels)
    /\ UNCHANGED <<vecVars, wheelVars, wheels, threads>>

Enter_get_wheel_speeds(t) ==
    \E a \in SpeedArgs :
        /\ chassis.built
        /\ threads[t].pc \in {"idle", "returned"}
        /\ threads' = [threads EXCEPT ![t] = [pc |-> "entered", args |-> a]]
        /\ UNCHANGED <<vecVars, wheelVars, wheels, chassis>>

Def_velocity_at(t) ==
    /\ threads[t].pc = "entered"
    /\ threads' = [threads EXCEPT ![t] = [pc |-> "defined", args |-> threads[t].args]]
    /\ UNCHANGED <<vecVars, wheelVars, wheels, chassis>>

Return_get_wheel_speeds(t) ==
    /\ threads[t].pc = "defined"
    /\ LET a == threads[t].args
           r == get_wheel_speeds(chassis, a.dx, a.dy, a.rotation, a.x_origin, a.y_origin)
       IN  /\ chassis' = r.self
           /\ threads' = [threads EXCEPT ![t] =
                             [pc |-> "returned", args |-> a, ret |-> r.ret]]
    /\ UNCHANGED <<vecVars, wheelVars, wheels>>

NoChassis == [built |-> FALSE, wheels |-> <<>>]

IdleThread == [pc |-> "idle"]

NoWheel == [called |-> FALSE]

InitRest ==
    /\ made = NoWheel
    /\ wheels = <<>>
    /\ chassis = NoChassis
    /\ threads = [t \in Threads |-> IdleThread]

(* object 1 is any vector within the bound, object 2 one of four operands *)
InitVector ==
    /\ heap \in {h \in [Refs -> {Vector2__init__(x, y) : x \in Coords, y \in Coords}] :
                    h[2].x \in {0, MaxCoord} /\ h[2].y \in {-MaxCoord, 0}}
    /\ last = NoCall
    /\ InitRest

NextVector ==
    \/ Call__copy__ \/ Call__eq__ \/ Call__ne__ \/ Call__nonzero__ \/ Call__len__
    \/ Call_dot \/ Call_cross \/ Call__abs__ \/ Call_magnitude_squared
    \/ Call_normalized \/ Call__add__ \/ Call__iadd__ \/ Call__getitem__
    \/ Call__setitem__ \/ Call__sub__ \/ Call__rsub__ \/ Call__mul__ \/ Call__imul__
    \/ Call__div__ \/ Call__rdiv__ \/ Call__floordiv__ \/ Call__rfloordiv__
    \/ Call__truediv__ \/ Call__rtruediv__ \/ Call__neg__ \/ Call__pos__

SpecVector == InitVector /\ [][NextVector]_vars

InitHeap ==
    /\ heap = [i \in Refs |-> Vector2__init__(0, 0)]
    /\ last = NoCall

InitWheel == InitHeap /\ InitRest

NextWheel == Call_OmniWheel

SpecWheel == InitWheel /\ [][NextWheel]_vars

InitChassis == InitHeap /\ InitRest

NextChassis ==
    \/ AppendWheel
    \/ Call_HoloChassis
    \/ \E t \in Threads : Enter_get_wheel_speeds(t)
    \/ \E t \in Threads : Def_velocity_at(t)
    \/ \E t \in Threads : Return_get_wheel_speeds(t)

SpecChassis == InitChassis /\ [][NextChassis]_vars

(***************************************************************************)
(* Properties.                                                             *)
(***************************************************************************)
Returned(t) == threads[t].pc = "returned"

IsList(v) == v.kind = "list"

HasSpeed(v, i) == IsList(v) /\ i \in DOMAIN v.items

WheelIndices == 1..Len(chassis.wheels)

(* the speed section 4.2 of the specification gives wheel w under the      *)
(* command a, in fixed point; it is undefined for a zero drive vector      *)
ClaimedSpeed(w, a) ==
    LET omega == (a.rotation * pi) \div 180
        rx == w.x - a.x_origin
        ry == w.y - a.y_origin
        vx == a.dx + FMul(omega, ry)
        vy == a.dy + FMul(omega, -rx)
        m == w.dx * w.dx + w.dy * w.dy
    IN  IF m = 0 THEN 0 ELSE ((vx * w.dx + vy * w.dy) * Unit) \div m

(* C1: every returned get_wheel_speeds call returned a sequence with one   *)
(* element per wheel of the chassis (the empty sequence for no wheels).    *)
C1_OneSpeedPerWheel ==
    \A t \in Threads :
        Returned(t) =>
            /\ IsList(threads[t].ret)
            /\ Len(threads[t].ret.items) = Len(chassis.wheels)

(* C2: for every wheel w, the speed a returned call gives for w is         *)
(* dot(v, w.drive_vector) / magnitude_squared(w.drive_vector) with         *)
(* v = (dx, dy) + omega * perpendicular(w.position - origin); so it is 0   *)
(* when the origin is w's position and (dx, dy) . drive_vector = 0.        *)
C2_SpeedIsProjection ==
    \A t \in Threads :
        Returned(t) =>
            \A i \in WheelIndices :
                LET w == chassis.wheels[i]
                    a == threads[t].args
                IN  /\ HasSpeed(threads[t].ret, i)
                    /\ threads[t].ret.items[i] = ClaimedSpeed(w, a)
                    /\ (/\ a.x_origin = w.x
                        /\ a.y_origin = w.y
                        /\ a.dx * w.dx + a.dy * w.dy = 0
                        /\ ~(w.dx = 0 /\ w.dy = 0))
                       => threads[t].ret.items[i] = 0

ValidCombination(m) ==
    \/ m.dx.given /\ m.dy.given /\ ~m.angle.given /\ ~m.radius.given
    \/ m.angle.given /\ m.radius.given /\ ~m.dx.given /\ ~m.dy.given

(* C3: OmniWheel construction succeeds exactly when one parameterization   *)
(* is fully given and the other fully absent; every other combination      *)
(* raises ValueError and leaves no object that has a drive vector.         *)
C3_ConstructionValidity ==
    made.called =>
        /\ made.res.status = "ok" <=> ValidCombination(made)
        /\ made.res.status = "ok" => {"dx", "dy"} \subseteq DOMAIN made.res.self
        /\ made.res.status # "ok" =>
              /\ made.res.status = "raised"
              /\ made.res.exc = "ValueError"
              /\ {"dx", "dy"} \cap DOMAIN made.res.self = {}

C3_Witness ==
    /\ made.called
    /\ made.angle.given /\ made.radius.given /\ made.dx.given /\ made.dy.given
    /\ made.res.status = "raised"

(* C4: every successfully constructed OmniWheel has a non-zero drive       *)
(* vector.                                                                 *)
C4_DriveVectorNonZero ==
    (made.called /\ made.res.status = "ok") =>
        ~(made.res.self.dx = 0 /\ made.res.self.dy = 0)

(* C5: two returned calls with the same dx, dy and rotation = 0 give, for  *)
(* every wheel, the same speed, whatever their origins.                    *)
C5_OriginIrrelevantWithoutRotation ==
    \A t1 \in Threads, t2 \in Threads :
        (/\ Returned(t1) /\ Returned(t2)
         /\ threads[t1].args.rotation = 0 /\ threads[t2].args.rotation = 0
         /\ threads[t1].args.dx = threads[t2].args.dx
         /\ threads[t1].args.dy = threads[t2].args.dy)
        => \A i \in WheelIndices :
               /\ HasSpeed(threads[t1].ret, i)
               /\ HasSpeed(threads[t2].ret, i)
               /\ threads[t1].ret.items[i] = threads[t2].ret.items[i]

(* C6: a returned call with (2dx, 2dy, 2rotation) gives, for every wheel,  *)
(* twice the speed of a returned call with (dx, dy, rotation) and the same *)
(* origin.                                                                 *)
C6_Doubling ==
    \A t1 \in Threads, t2 \in Threads :
        (/\ Returned(t1) /\ Returned(t2)
         /\ threads[t2].args.dx = 2 * threads[t1].args.dx
         /\ threads[t2].args.dy = 2 * threads[t1].args.dy
         /\ threads[t2].args.rotation = 2 * threads[t1].args.rotation
         /\ threads[t2].args.x_origin = threads[t1].args.x_origin
         /\ threads[t2].args.y_origin = threads[t1].args.y_origin)
        => \A i \in WheelIndices :
               /\ HasSpeed(threads[t1].ret, i)
               /\ HasSpeed(threads[t2].ret, i)
               /\ threads[t2].ret.items[i] = 2 * threads[t1].ret.items[i]

ResultAlone(a) ==
    get_wheel_speeds(chassis, a.dx, a.dy, a.rotation, a.x_origin, a.y_origin).ret

(* C7: no step of a get_wheel_speeds call changes the constructed chassis  *)
(* (its wheel sequence, each wheel's position and drive vector), and each  *)
(* interleaved call returned what the same call on the chassis returns     *)
(* alone.                                                                  *)
C7_CallsLeaveChassisUnchanged ==
    /\ [][chassis.built => chassis' = chassis]_vars
    /\ [](\A t \in Threads : Returned(t) => threads[t].ret = ResultAlone(threads[t].args))

C7_Witness ==
    /\ chassis.built
    /\ Len(chassis.wheels) > 0
    /\ Returned(1)
    /\ threads[2].pc = "defined"
    /\ threads[1].args # threads[2].args

ReturnsVector(r) == r.status = "ok" /\ r.val.kind = "Vector2"

LeavesOperands == heap = last.pre /\ (ReturnsVector(last.ret) => last.ret.val.ref = 0)

(* C8 as stated: every Vector2 operation other than __iadd__ leaves the    *)
(* x and y of all vectors unchanged and, when it returns a vector, returns *)
(* a new one.                                                              *)
C8_OnlyIaddMutates ==
    last.op \notin {"none", "__iadd__"} => LeavesOperands

(* C8 as amended: the same of every operation other than __iadd__,         *)
(* __imul__ and __setitem__.                                               *)
C8_OnlyInPlaceOpsMutate ==
    last.op \notin {"none", "__iadd__", "__imul__", "__setitem__"} => LeavesOperands

C8_Witness ==
    /\ last.op = "__add__"
    /\ last.arg = OVec(last.self)
    /\ ReturnsVector(last.ret)
    /\ last.pre[last.self].x # 0

(* q is x / k: exactly, or rounded down when Python 2 divides int by int   *)
IsQuotient(q, x, k, floors) ==
    /\ q.rad = 1
    /\ q.den > 0
    /\ IF floors
       THEN /\ q.den = 1
            /\ IF k > 0 THEN k * q.num <= x /\ x < k * q.num + k
                        ELSE k * q.num >= x /\ x > k * q.num + k
       ELSE q.num * k = x * q.den

IsOverRoot(r, x, n) ==
    /\ r.den > 0
    /\ Sign(r.num) = Sign(x)
    /\ r.num * r.num * r.rad * n = x * x * r.den * r.den

(* C10: normalized of the zero vector returns a vector equal to the zero   *)
(* vector and raises nothing; of a non-zero vector it returns the vector   *)
(* divided componentwise by its magnitude.                                 *)
C10_Normalized ==
    last.op = "normalized" =>
        LET v == last.pre[last.self]
            n == v.x * v.x + v.y * v.y
        IN  /\ ReturnsVector(last.ret)
            /\ IF n = 0
               THEN last.ret.val.x = Whole(0) /\ last.ret.val.y = Whole(0)
               ELSE /\ IsOverRoot(last.ret.val.x, v.x, n)
                    /\ IsOverRoot(last.ret.val.y, v.y, n)

C10_Witness ==
    /\ last.op = "normalized"
    /\ last.pre[last.self] = Vector2__init__(0, 0)
    /\ last.ret.status = "ok"

====
